---- MODULE Spec2Model ----
(***************************************************************************)
(* kml_to_fgfp: the conversion of the placemarks of a .kml document into   *)
(* the route of a .fgfp flight plan.                                       *)
(*                                                                         *)
(* The model follows one call of runner::run: the start of the output      *)
(* tree, the airports, transform_route (one step per event pulled from the *)
(* xml reader) and close_tree.  Strings the code splits are modelled by    *)
(* the pieces the split yields:                                            *)
(*   - an element name is the sequence of its '}'-separated pieces         *)
(*     ("{uri}Placemark" is <<"{uri", "Placemark">>),                      *)
(*   - a text is the sequence of its ','-separated tokens                  *)
(*     ("1,2,3" is <<"1", "2", "3">>, "EZE11" is <<"EZE11">>),             *)
(*   - an airport code is the sequence of its '/'-separated pieces,        *)
(*   - a line given to write_event is a sequence of ' '-separated words,   *)
(*     each word the sequence of its '='-separated pieces.                 *)
(* Texts and names of the model carry no leading or trailing whitespace.   *)
(***************************************************************************)
EXTENDS Integers, Sequences, FiniteSets, TLC

\* ------------------------------------------------------------------ bounds

\* Placemark elements the input document may open.
MaxPlacemarks == 2
\* Depth of element nesting of the input below the document's container.
MaxDepth == 2
\* Whole metres of the altitudes the conversion is tried on.
MaxMeters == 3801

\* --------------------------------------------------------------- option type

None == [some |-> FALSE]
Some(v) == [some |-> TRUE, v |-> v]

\* ------------------------------------------------------------ input alphabet

KmlNs == "{http://www.opengis.net/kml/2.2"

\* Local names of the elements of the input.
Locals == {"Placemark", "name", "styleUrl", "coordinates", "Point"}

\* OwnedName::to_string of an element: "{namespace}local" in a document that
\* declares the namespace, "local" otherwise.
RawName(ns, local) == IF ns THEN <<KmlNs, local>> ELSE <<local>>

LonTok == "-58.594239"
LatTok == "-34.811897"
AltTok == "823"
BadTok == "x"

\* Texts of Characters events.
Texts ==
  { <<"EZE11">>, <<"SAEZ">>, <<"#FixMark">>,
    <<LonTok, LatTok, AltTok>>,
    <<BadTok, LatTok, AltTok>>,
    <<LonTok, BadTok, AltTok>>,
    <<LonTok, LatTok, BadTok>>,
    <<LonTok, LatTok>> }

\* The texts an element of a kml document holds, by the element's name.
KmlTexts(local) ==
  CASE local = "name" -> { <<"EZE11">> }
    [] local = "styleUrl" -> { <<"#FixMark">>, <<"#RouteMark">> }
    [] local = "coordinates" ->
         { <<LonTok, LatTok, AltTok>>, <<LonTok, LatTok, BadTok>>,
           <<LonTok, LatTok>> }
    [] OTHER -> { <<"EZE11">> }

\* Airport codes of the command line.
DepartureCodes == {None, Some(<<"SAEZ", "11">>)}
DestinationCodes == {None, Some(<<"SAEZ", "29">>)}

\* ------------------------------------------------------------------ f64

\* A finite f64 is kept as sign, whole part, seven fractional digits and a
\* power of ten: (whole + frac / 10^7) * 10^exp.
F64e(neg, whole, frac, exp) ==
  [neg |-> neg, whole |-> whole, frac |-> frac, exp |-> exp]
F64(neg, whole, frac) == F64e(neg, whole, frac, 0)
Zero64 == F64(FALSE, 0, 0)

\* A usize is kept as its three digits in base 10^9, the highest first.
Usize(v) == <<0, 0, v>>
\* usize::MAX, 18446744073709551615.
UsizeMax == <<18, 446744073, 709551615>>

\* str::parse::<f64> on the tokens of the model.
ParseF64(tok) ==
  CASE tok = "-58.594239" -> [ok |-> TRUE, v |-> F64(TRUE, 58, 5942390)]
    [] tok = "-34.811897" -> [ok |-> TRUE, v |-> F64(TRUE, 34, 8118970)]
    [] tok = "823" -> [ok |-> TRUE, v |-> F64(FALSE, 823, 0)]
    [] tok = "3800.2" -> [ok |-> TRUE, v |-> F64(FALSE, 3800, 2000000)]
    [] tok = "0" -> [ok |-> TRUE, v |-> Zero64]
    [] tok = "1e30" -> [ok |-> TRUE, v |-> F64e(FALSE, 1, 0, 30)]
    [] OTHER -> [ok |-> FALSE, v |-> Zero64]

\* meters * 3.280839895 / 100, rounded half away from zero, times 100, cast
\* to usize.  The cast saturates: a negative value gives 0, a value past
\* usize::MAX gives usize::MAX.  The values of the model are those with one
\* fractional digit below 5000 metres (exp = 0), for which the product is
\* computed in tenths of a metre, and those of 10^20 metres and more
\* (exp >= 20, whole >= 1), whose feet are past usize::MAX.
FeetRounded(m) ==
  LET tenths == m.whole * 10 + (m.frac \div 1000000)
      a == tenths * 32808
      b == tenths * 39895
      q == a \div 10000000
      r == (a % 10000000) + (b \div 100000)
      hundreds == q + (IF r >= 15000000 THEN 2 ELSE IF r >= 5000000 THEN 1 ELSE 0)
  IN  IF m.neg THEN Usize(0)
      ELSE IF m.exp > 0 THEN UsizeMax
      ELSE Usize(hundreds * 100)

\* format!("{:.6}", x): six fractional digits, the seventh rounded.
Format6(x) ==
  LET up == (x.frac % 10) >= 5
      f == (x.frac \div 10) + (IF up THEN 1 ELSE 0)
  IN  [neg |-> x.neg,
       whole |-> x.whole + (IF f >= 1000000 THEN 1 ELSE 0),
       micro |-> f % 1000000]

\* ------------------------------------------------------------------ writer

\* code.split('=').zip(code.split('=').skip(1)): the pairs of consecutive
\* '='-pieces of a word.
Pairs(code) == [j \in 1..(Len(code) - 1) |-> <<code[j], code[j + 1]>>]

\* The attributes of an opening line: the pairs of its words, in order.
RECURSIVE Attributes(_)
Attributes(line) ==
  IF line = <<>> THEN <<>>
  ELSE Pairs(Head(line)) \o Attributes(Tail(line))

\* The XmlEvent that write_event hands to the writer.  An opening element
\* takes its name from the first word of the line and its attributes from
\* the words holding a '='; a closing element carries no name (the writer
\* closes the innermost open element); a content carries the text.
write_event(event_type, line) ==
  CASE event_type = "OpeningElement" ->
         [kind |-> "start",
          name |-> line[1],
          attrs |-> Attributes(line)]
    [] event_type = "ClosingElement" -> [kind |-> "end"]
    [] event_type = "Content" -> [kind |-> "chars", text |-> line]

\* A word of a line with no '=' in it, and a word name=value.
W(s) == <<s>>
A(n, v) == <<n, v>>

\* The three writes of an element holding one text.
Field(opening, text) ==
  << write_event("OpeningElement", opening),
     write_event("Content", text),
     write_event("ClosingElement", <<W(opening[1][1])>>) >>

\* write_waypoint with the number written whatever it is.
write_waypoint_always_numbered(wp) ==
  LET opening == <<W("wp"), A("n", wp.number)>>
  IN  <<write_event("OpeningElement", opening)>>
      \o Field(<<W("type"), A("type", "string")>>, "basic")
      \o Field(<<W("ident"), A("type", "string")>>, wp.ident)
      \o Field(<<W("lon"), A("type", "double")>>, Format6(wp.lon))
      \o Field(<<W("lat"), A("type", "double")>>, Format6(wp.lat))
      \o <<write_event("ClosingElement", <<W("wp")>>)>>

\* write_waypoint with lat written before lon.
write_waypoint_lat_first(wp) ==
  LET number == IF wp.number > 0 THEN <<A("n", wp.number)>> ELSE <<>>
      opening == <<W("wp")>> \o number
  IN  <<write_event("OpeningElement", opening)>>
      \o Field(<<W("type"), A("type", "string")>>, "basic")
      \o Field(<<W("ident"), A("type", "string")>>, wp.ident)
      \o Field(<<W("lat"), A("type", "double")>>, Format6(wp.lat))
      \o Field(<<W("lon"), A("type", "double")>>, Format6(wp.lon))
      \o <<write_event("ClosingElement", <<W("wp")>>)>>

\* The events write_waypoint writes for a waypoint, in order.
write_waypoint(wp) ==
  LET number == IF wp.number > 0 THEN <<A("n", wp.number)>> ELSE <<>>
      opening == <<W("wp")>> \o number
  IN  <<write_event("OpeningElement", opening)>>
      \o Field(<<W("type"), A("type", "string")>>, "basic")
      \o Field(<<W("ident"), A("type", "string")>>, wp.ident)
      \o Field(<<W("lon"), A("type", "double")>>, Format6(wp.lon))
      \o Field(<<W("lat"), A("type", "double")>>, Format6(wp.lat))
      \o <<write_event("ClosingElement", <<W("wp")>>)>>

\* The events write_start_of_tree writes.
write_start_of_tree ==
  <<write_event("OpeningElement", <<W("PropertyList")>>)>>
  \o Field(<<W("version"), A("type", "int")>>, "2")
  \o Field(<<W("flight-rules"), A("type", "string")>>, "V")
  \o Field(<<W("flight-type"), A("type", "string")>>, "X")
  \o Field(<<W("estimated-duration-minutes"), A("type", "int")>>, "0")

\* The events write_airport_details writes for a code.
write_airport_details(code) ==
  IF Len(code) > 1
    THEN Field(<<W("airport"), A("type", "string")>>, code[1])
         \o Field(<<W("runway"), A("type", "string")>>, code[2])
    ELSE Field(<<W("airport"), A("type", "string")>>, code[1])

\* write_airports with the destination written before the departure.
write_airports_destination_first(dep, arr) ==
  (IF arr.some
     THEN <<write_event("OpeningElement", <<W("destination")>>)>>
          \o write_airport_details(arr.v)
          \o <<write_event("ClosingElement", <<W("destination")>>)>>
     ELSE <<>>)
  \o
  (IF dep.some
     THEN <<write_event("OpeningElement", <<W("departure")>>)>>
          \o write_airport_details(dep.v)
          \o <<write_event("ClosingElement", <<W("departure")>>)>>
     ELSE <<>>)

\* The events write_airports writes.
write_airports(dep, arr) ==
  (IF dep.some
     THEN <<write_event("OpeningElement", <<W("departure")>>)>>
          \o write_airport_details(dep.v)
          \o <<write_event("ClosingElement", <<W("departure")>>)>>
     ELSE <<>>)
  \o
  (IF arr.some
     THEN <<write_event("OpeningElement", <<W("destination")>>)>>
          \o write_airport_details(arr.v)
          \o <<write_event("ClosingElement", <<W("destination")>>)>>
     ELSE <<>>)

\* The event close_tree writes.
close_tree == <<write_event("ClosingElement", <<W("PropertyList")>>)>>

\* airport_decoder: ICAO/RUNWAY gives the two parts; a code with no '/'
\* keeps the initial values of ident and runway.
airport_decoder(code) ==
  IF Len(code) > 1
    THEN [ident |-> code[1], runway |-> Some(code[2])]
    ELSE [ident |-> "ICAO", runway |-> None]

\* config.departure.map(|ap| airport_decoder(&ap))
DecodeOpt(code) == IF code.some THEN Some(airport_decoder(code.v)) ELSE None

\* The runway waypoint of an airport: type runway, the role flag, the
\* runway when there is one, the airport's ICAO identifier.
write_airport_waypoint(airport, role, number) ==
  LET n == IF number > 0 THEN <<A("n", number)>> ELSE <<>>
  IN  <<write_event("OpeningElement", <<W("wp")>> \o n)>>
      \o Field(<<W("type"), A("type", "string")>>, "runway")
      \o Field(<<W(role), A("type", "bool")>>, "true")
      \o (IF airport.runway.some
            THEN Field(<<W("ident"), A("type", "string")>>, airport.runway.v)
            ELSE <<>>)
      \o Field(<<W("icao"), A("type", "string")>>, airport.ident)
      \o <<write_event("ClosingElement", <<W("wp")>>)>>

\* ------------------------------------------------------------- the scanner

LookingFor ==
  { "OpeningPlacemark", "OpeningName", "ContentName", "ClosingName",
    "OpeningStyleUrl", "ContentStyleUrl", "ClosingStyleUrl",
    "OpeningCoordinates", "ContentCoordinates", "ClosingCoordinates",
    "ClosingPlacemark" }

\* simplify_name: the piece after the first '}' when there is one, the whole
\* name otherwise.
simplify_name(name) == name[IF Len(name) > 1 THEN 2 ELSE 1]

\* handle_start_event that takes the open of any element for that of
\* styleUrl.
handle_start_event_any_name(waypoint, current_search, drop, wp, name) ==
  LET s1 == IF current_search = "OpeningPlacemark" /\ name = "Placemark"
              THEN [waypoint |-> [waypoint EXCEPT !.number = wp],
                    current_search |-> "OpeningName",
                    drop |-> FALSE]
              ELSE [waypoint |-> waypoint,
                    current_search |-> current_search,
                    drop |-> drop]
      s2 == IF s1.current_search = "OpeningName" /\ name = "name"
              THEN [s1 EXCEPT !.current_search = "ContentName"]
              ELSE s1
      s3 == IF s2.current_search = "OpeningStyleUrl"
              THEN [s2 EXCEPT !.current_search = "ContentStyleUrl"]
              ELSE s2
      s4 == IF s3.current_search = "OpeningCoordinates" /\ name = "coordinates"
              THEN [s3 EXCEPT !.current_search = "ContentCoordinates"]
              ELSE s3
  IN  s4

\* handle_start_event that clears the drop flag on every open of a
\* Placemark, whatever the state.
handle_start_event_reset_any_state(waypoint, current_search, drop, wp, name) ==
  LET s1 == IF current_search = "OpeningPlacemark" /\ name = "Placemark"
              THEN [waypoint |-> [waypoint EXCEPT !.number = wp],
                    current_search |-> "OpeningName",
                    drop |-> FALSE]
              ELSE [waypoint |-> waypoint,
                    current_search |-> current_search,
                    drop |-> drop]
      s2 == IF s1.current_search = "OpeningName" /\ name = "name"
              THEN [s1 EXCEPT !.current_search = "ContentName"]
              ELSE [s1 EXCEPT !.drop = (s1.drop /\ name # "Placemark")]
      s3 == IF s2.current_search = "OpeningStyleUrl" /\ name = "styleUrl"
              THEN [s2 EXCEPT !.current_search = "ContentStyleUrl"]
              ELSE s2
      s4 == IF s3.current_search = "OpeningCoordinates" /\ name = "coordinates"
              THEN [s3 EXCEPT !.current_search = "ContentCoordinates"]
              ELSE s3
  IN  s4

\* handle_start_event: the four tests run one after the other on the values
\* the earlier ones left.
handle_start_event(waypoint, current_search, drop, wp, name) ==
  LET s1 == IF current_search = "OpeningPlacemark" /\ name = "Placemark"
              THEN [waypoint |-> [waypoint EXCEPT !.number = wp],
                    current_search |-> "OpeningName",
                    drop |-> FALSE]
              ELSE [waypoint |-> waypoint,
                    current_search |-> current_search,
                    drop |-> drop]
      s2 == IF s1.current_search = "OpeningName" /\ name = "name"
              THEN [s1 EXCEPT !.current_search = "ContentName"]
              ELSE s1
      s3 == IF s2.current_search = "OpeningStyleUrl" /\ name = "styleUrl"
              THEN [s2 EXCEPT !.current_search = "ContentStyleUrl"]
              ELSE s2
      s4 == IF s3.current_search = "OpeningCoordinates" /\ name = "coordinates"
              THEN [s3 EXCEPT !.current_search = "ContentCoordinates"]
              ELSE s3
  IN  s4

\* line == s, for a text and a string with no ',' in it.
TextIs(line, s) == Len(line) = 1 /\ line[1] = s

\* line == airport.ident, for an Option<Airport>.
IsAirport(line, airport) == airport.some /\ TextIs(line, airport.v.ident)

\* Step 9 with the parse error of the altitude not kept in the message.
ParseCoordinates_altitude_unchecked(s, line) ==
  IF Len(line) < 3
    THEN [s EXCEPT !.panic = TRUE]
    ELSE
      LET lon == ParseF64(line[1])
          lat == ParseF64(line[2])
          meters == ParseF64(line[3])
          failed == ~lon.ok \/ ~lat.ok
      IN  [waypoint |-> [s.waypoint EXCEPT !.lon = lon.v,
                                           !.lat = lat.v,
                                           !.altitude = FeetRounded(meters.v)],
           current_search |-> "ClosingCoordinates",
           drop |-> (s.drop \/ failed),
           panic |-> FALSE]

\* Step 9 of handle_characters_event, the contents of coordinates.  data[1]
\* and data[2] are indexed without a test of the length: with fewer than
\* three tokens the index panics.
ParseCoordinates(s, line) ==
  IF Len(line) < 3
    THEN [s EXCEPT !.panic = TRUE]
    ELSE
      LET lon == ParseF64(line[1])
          lat == ParseF64(line[2])
          meters == ParseF64(line[3])
          failed == ~lon.ok \/ ~lat.ok \/ ~meters.ok
      IN  [waypoint |-> [s.waypoint EXCEPT !.lon = lon.v,
                                           !.lat = lat.v,
                                           !.altitude = FeetRounded(meters.v)],
           current_search |-> "ClosingCoordinates",
           drop |-> (s.drop \/ failed),
           panic |-> FALSE]

\* handle_characters_event that goes from the text of name straight on to
\* the open of styleUrl.
handle_characters_event_name_close_skipped(waypoint, current_search, drop, line, departure_airport, destination_airport) ==
  LET s0 == [waypoint |-> waypoint, current_search |-> current_search,
             drop |-> drop, panic |-> FALSE]
      isAirport == IsAirport(line, departure_airport)
                     \/ IsAirport(line, destination_airport)
      s1 == IF current_search = "ContentName"
              THEN [s0 EXCEPT !.waypoint.ident = line,
                              !.current_search =
                                 IF isAirport THEN "ClosingPlacemark"
                                              ELSE "OpeningStyleUrl",
                              !.drop = (drop \/ isAirport)]
              ELSE s0
      returned == s1.current_search = "ContentStyleUrl"
                    /\ ~TextIs(line, "#FixMark")
      s2 == IF s1.current_search = "ContentStyleUrl"
              THEN IF returned
                     THEN [s1 EXCEPT !.drop = TRUE,
                                     !.current_search = "ClosingPlacemark"]
                     ELSE [s1 EXCEPT !.current_search = "ClosingStyleUrl"]
              ELSE s1
      s3 == IF ~returned /\ s2.current_search = "ContentCoordinates"
              THEN ParseCoordinates(s2, line)
              ELSE s2
  IN  s3

\* handle_characters_event with the test of the destination airport left
\* out.
handle_characters_event_departure_only(waypoint, current_search, drop, line, departure_airport, destination_airport) ==
  LET s0 == [waypoint |-> waypoint, current_search |-> current_search,
             drop |-> drop, panic |-> FALSE]
      isAirport == IsAirport(line, departure_airport)
      s1 == IF current_search = "ContentName"
              THEN [s0 EXCEPT !.waypoint.ident = line,
                              !.current_search =
                                 IF isAirport THEN "ClosingPlacemark"
                                              ELSE "ClosingName",
                              !.drop = (drop \/ isAirport)]
              ELSE s0
      returned == s1.current_search = "ContentStyleUrl"
                    /\ ~TextIs(line, "#FixMark")
      s2 == IF s1.current_search = "ContentStyleUrl"
              THEN IF returned
                     THEN [s1 EXCEPT !.drop = TRUE,
                                     !.current_search = "ClosingPlacemark"]
                     ELSE [s1 EXCEPT !.current_search = "ClosingStyleUrl"]
              ELSE s1
      s3 == IF ~returned /\ s2.current_search = "ContentCoordinates"
              THEN ParseCoordinates(s2, line)
              ELSE s2
  IN  s3

\* handle_characters_event: the three tests run one after the other; the
\* styleUrl test returns early for a text other than #FixMark.
handle_characters_event(waypoint, current_search, drop, line, departure_airport, destination_airport) ==
  LET s0 == [waypoint |-> waypoint, current_search |-> current_search,
             drop |-> drop, panic |-> FALSE]
      isAirport == IsAirport(line, departure_airport)
                     \/ IsAirport(line, destination_airport)
      s1 == IF current_search = "ContentName"
              THEN [s0 EXCEPT !.waypoint.ident = line,
                              !.current_search =
                                 IF isAirport THEN "ClosingPlacemark"
                                              ELSE "ClosingName",
                              !.drop = (drop \/ isAirport)]
              ELSE s0
      returned == s1.current_search = "ContentStyleUrl"
                    /\ ~TextIs(line, "#FixMark")
      s2 == IF s1.current_search = "ContentStyleUrl"
              THEN IF returned
                     THEN [s1 EXCEPT !.drop = TRUE,
                                     !.current_search = "ClosingPlacemark"]
                     ELSE [s1 EXCEPT !.current_search = "ClosingStyleUrl"]
              ELSE s1
      s3 == IF ~returned /\ s2.current_search = "ContentCoordinates"
              THEN ParseCoordinates(s2, line)
              ELSE s2
  IN  s3

\* handle_end_event with the waypoint written whatever the drop flag.
handle_end_event_drop_ignored(waypoint, current_search, drop, wp, name) ==
  LET s1 == IF current_search = "ClosingName" /\ name = "name"
              THEN "OpeningStyleUrl" ELSE current_search
      s2 == IF s1 = "ClosingStyleUrl" /\ name = "styleUrl"
              THEN "OpeningCoordinates" ELSE s1
      s3 == IF s2 = "ClosingCoordinates" /\ name = "coordinates"
              THEN "ClosingPlacemark" ELSE s2
      closes == s3 = "ClosingPlacemark" /\ name = "Placemark"
  IN  [waypoint |-> waypoint,
       current_search |-> IF closes THEN "OpeningPlacemark" ELSE s3,
       wp |-> IF closes THEN wp + 1 ELSE wp,
       writes |-> IF closes THEN write_waypoint(waypoint) ELSE <<>>]

\* handle_end_event that takes the close of name as the end of the
\* placemark's children.
handle_end_event_name_to_close(waypoint, current_search, drop, wp, name) ==
  LET s1 == IF current_search = "ClosingName" /\ name = "name"
              THEN "ClosingPlacemark" ELSE current_search
      s2 == IF s1 = "ClosingStyleUrl" /\ name = "styleUrl"
              THEN "OpeningCoordinates" ELSE s1
      s3 == IF s2 = "ClosingCoordinates" /\ name = "coordinates"
              THEN "ClosingPlacemark" ELSE s2
      closes == s3 = "ClosingPlacemark" /\ name = "Placemark"
  IN  [waypoint |-> waypoint,
       current_search |-> IF closes THEN "OpeningPlacemark" ELSE s3,
       wp |-> IF closes /\ ~drop THEN wp + 1 ELSE wp,
       writes |-> IF closes /\ ~drop THEN write_waypoint(waypoint) ELSE <<>>]

\* handle_end_event without its count of the waypoint written.
handle_end_event_no_count(waypoint, current_search, drop, wp, name) ==
  LET s1 == IF current_search = "ClosingName" /\ name = "name"
              THEN "OpeningStyleUrl" ELSE current_search
      s2 == IF s1 = "ClosingStyleUrl" /\ name = "styleUrl"
              THEN "OpeningCoordinates" ELSE s1
      s3 == IF s2 = "ClosingCoordinates" /\ name = "coordinates"
              THEN "ClosingPlacemark" ELSE s2
      closes == s3 = "ClosingPlacemark" /\ name = "Placemark"
  IN  [waypoint |-> waypoint,
       current_search |-> IF closes THEN "OpeningPlacemark" ELSE s3,
       wp |-> wp,
       writes |-> IF closes /\ ~drop THEN write_waypoint(waypoint) ELSE <<>>]

\* handle_end_event: the four tests run one after the other; `writes` are the
\* events of the waypoint to write, and wp counts it.
handle_end_event(waypoint, current_search, drop, wp, name) ==
  LET s1 == IF current_search = "ClosingName" /\ name = "name"
              THEN "OpeningStyleUrl" ELSE current_search
      s2 == IF s1 = "ClosingStyleUrl" /\ name = "styleUrl"
              THEN "OpeningCoordinates" ELSE s1
      s3 == IF s2 = "ClosingCoordinates" /\ name = "coordinates"
              THEN "ClosingPlacemark" ELSE s2
      closes == s3 = "ClosingPlacemark" /\ name = "Placemark"
  IN  [waypoint |-> waypoint,
       current_search |-> IF closes THEN "OpeningPlacemark" ELSE s3,
       wp |-> IF closes /\ ~drop THEN wp + 1 ELSE wp,
       writes |-> IF closes /\ ~drop THEN write_waypoint(waypoint) ELSE <<>>]

\* ------------------------------------------------------------------- state

VARIABLES
  pc,              \* where run is
  departure,       \* config.departure, an Option of an airport code
  destination,     \* config.destination
  current_search,  \* transform_route's locals
  drop,
  waypoint,
  wp,
  out,             \* the events the writer was given, in order
  inStack,         \* the open elements of the input, outermost first
  pmCount,         \* Placemark elements the input opened so far
  trace,           \* whether the history variables below are kept
  fresh,           \* the innermost open element has no content yet
  seen,            \* the children the open Placemark has had so far
  pmStyle,         \* per Placemark, the text of its first styleUrl child:
                   \* "fix" for #FixMark, "other", or "none" so far
  identSrc,        \* the Placemark that waypoint.ident was read in
  assigned,        \* the number of scan cycles begun (steps from
                   \* OpeningPlacemark to OpeningName), and the cycle in which
                   \* the record's number, ident and coordinates were assigned
  read_failed,     \* the reader gave an error
  meters,          \* handle_characters_event's local: data[2] parsed
  args,            \* env::args() as main has it, each argument the sequence
                   \* of its '/'-pieces; empty once build consumed it
  emitted,         \* per waypoint written: the Placemark its ident was
                   \* read in, that Placemark's style, and the Placemark
                   \* whose close wrote the waypoint
  element_name,    \* the argument of a call of simplify_name, the sequence
                   \* of its '}'-pieces
  local_name       \* what the call returned

vars ==
  << pc, departure, destination, current_search, drop, waypoint, wp, out,
     inStack, pmCount, trace, fresh, seen, pmStyle, identSrc, assigned,
     read_failed, meters, args, emitted, element_name, local_name >>

config ==
  <<departure, destination, trace, meters, args, element_name, local_name>>
scanner == <<current_search, drop, waypoint, wp>>
input == <<inStack, pmCount, fresh, seen, pmStyle, identSrc, assigned>>

\* No cycle begun, nothing assigned.
NothingAssigned == [cycle |-> 0, number |-> 0, ident |-> 0, coords |-> 0]

departure_airport == DecodeOpt(departure)
destination_airport == DecodeOpt(destination)

\* The Placemark the reader is inside of, 0 outside of any.
CurPm ==
  LET open == {i \in 1..Len(inStack) : inStack[i].pm > 0}
  IN  IF open = {} THEN 0 ELSE inStack[CHOOSE i \in open : TRUE].pm

\* The waypoint transform_route starts with.
NoWaypoint ==
  [number |-> 0, ident |-> <<"">>, lon |-> Zero64, lat |-> Zero64,
   altitude |-> Usize(0)]

\* The values transform_route and the writer start with.
Start ==
  /\ current_search = "OpeningPlacemark"
  /\ drop = FALSE
  /\ waypoint = NoWaypoint
  /\ wp = 0
  /\ out = <<>>
  /\ inStack = <<>>
  /\ pmCount = 0
  /\ fresh = FALSE
  /\ seen = {}
  /\ pmStyle = <<>>
  /\ identSrc = 0
  /\ assigned = NothingAssigned
  /\ read_failed = FALSE
  /\ emitted = <<>>
  /\ local_name = ""

\* Any of the command lines.
Init ==
  /\ Start
  /\ pc = "run"
  /\ departure \in DepartureCodes
  /\ destination \in DestinationCodes
  /\ trace = FALSE
  /\ meters = Zero64
  /\ args = <<>>
  /\ element_name = <<>>

\* A command line with no airports and a document in the shape of kml: a
\* text is the whole content of the element it is in, and a Placemark has at
\* most one child of each name.  The history of the texts is kept.
InitTrace ==
  /\ Start
  /\ pc = "run"
  /\ departure = None
  /\ destination = None
  /\ trace = TRUE
  /\ meters = Zero64
  /\ args = <<>>
  /\ element_name = <<>>

\* The altitudes the conversion is tried on: the numbers of metres with one
\* fractional digit up to MaxMeters, of either sign, and 10^30 metres.
AltitudeInputs ==
  { F64(neg, whole, tenth * 1000000) :
      neg \in BOOLEAN, whole \in 0..MaxMeters, tenth \in 0..9 }
  \cup { F64e(neg, 1, 0, 30) : neg \in BOOLEAN }

\* The airport codes of a command line: ICAO or ICAO/RUNWAY.
AirportCodes ==
  { <<icao>> : icao \in {"SAEZ", "SABE"} }
  \cup { <<icao, runway>> : icao \in {"SAEZ", "SABE"}, runway \in {"11", "29"} }

\* A command line with any of these codes, or none, for each airport.
InitDecode ==
  /\ Start
  /\ pc = "run"
  /\ departure \in {None} \cup {Some(code) : code \in AirportCodes}
  /\ destination \in {None} \cup {Some(code) : code \in AirportCodes}
  /\ trace = FALSE
  /\ meters = Zero64
  /\ args = <<>>
  /\ element_name = <<>>

\* The arguments of the full command line, the program's name first.
FullCommandLine ==
  << <<"kml_to_fgfp">>, <<"in.kml">>, <<"out.fgfp">>, <<"SAEZ", "11">>,
     <<"SAEZ", "29">>, <<"extra">> >>

\* Arguments that are flags: the two of the help, and one main does not know.
HelpFlags == { <<"--help">>, <<"-h">> }
Flags == HelpFlags \cup { <<"--foo">> }

\* The command lines main is started with: the beginnings of the full one,
\* and lines with a flag first, before the output file, or after it.
CommandLines ==
  { SubSeq(FullCommandLine, 1, n) : n \in 1..Len(FullCommandLine) }
  \cup { <<FullCommandLine[1], f>> : f \in Flags }
  \cup { <<FullCommandLine[1], f, FullCommandLine[3]>> : f \in Flags }
  \cup { <<FullCommandLine[1], FullCommandLine[2], FullCommandLine[3], f>> :
           f \in Flags }

\* main is started.
InitMain ==
  /\ Start
  /\ pc = "main"
  /\ args \in CommandLines
  /\ element_name = <<>>
  /\ departure = None
  /\ destination = None
  /\ trace = FALSE
  /\ meters = Zero64

\* handle_characters_event is at the conversion of an altitude that parsed.
InitConvert ==
  /\ Start
  /\ pc = "altitude"
  /\ departure = None
  /\ destination = None
  /\ trace = FALSE
  /\ meters \in AltitudeInputs
  /\ args = <<>>
  /\ element_name = <<>>

\* The most '}' a name given to simplify_name holds, plus one.
MaxPieces == 3

\* What lies between the '}' of a name: nothing, the opening of a namespace,
\* a local name, other text.
Pieces == {"", KmlNs, "{urn:a", "b", "name", "coordinates"}

\* A name of the form {uri}local, as OwnedName::to_string gives it for an
\* element of a namespace: "{", the namespace, "}", the local name.
Namespaced(name) ==
  /\ Len(name) > 1
  /\ name[1] \in {KmlNs, "{urn:a"}
  /\ name[Len(name)] \in {"b", "name", "coordinates"}

\* Any string of at most MaxPieces - 1 characters '}' is the argument.
InitSimplify ==
  /\ Start
  /\ pc = "simplify_name"
  /\ departure = None
  /\ destination = None
  /\ trace = FALSE
  /\ meters = Zero64
  /\ args = <<>>
  /\ \E n \in 1..MaxPieces : element_name \in [1..n -> Pieces]

\* The writer is given the events evs one by one; a write that fails ends
\* the function with the error (`?`), the events before it written.
\* k is the number of writes that succeed.
Written(evs, k) == out \o SubSeq(evs, 1, k)

\* ----------------------------------------------------------------- actions

\* transform_route's locals and the reader end with the call: once the loop
\* is left, by its end, an error or a panic, they hold nothing.
LocalsDropped ==
  /\ current_search' = "OpeningPlacemark"
  /\ drop' = FALSE
  /\ waypoint' = NoWaypoint
  /\ wp' = 0
  /\ inStack' = <<>>
  /\ pmCount' = 0
  /\ fresh' = FALSE
  /\ seen' = {}
  /\ pmStyle' = <<>>
  /\ identSrc' = 0
  /\ assigned' = NothingAssigned

\* env::args().any(|arg| arg == "--help" || arg == "-h")
HelpRequested(a) == \E i \in 1..Len(a) : a[i] \in HelpFlags

\* Config::build: the first argument is skipped, the next two are the input
\* and the output, the two after them, if there, the airports.
build(a) ==
  IF Len(a) < 2 THEN [ok |-> FALSE, err |-> "Didn't get an input file"]
  ELSE IF Len(a) < 3
    THEN [ok |-> FALSE, err |-> "Didn't get a destination directory"]
  ELSE [ok |-> TRUE,
        v |-> [input |-> a[2],
               output |-> a[3],
               departure |-> IF Len(a) >= 4 THEN Some(a[4]) ELSE None,
               destination |-> IF Len(a) >= 5 THEN Some(a[5]) ELSE None]]

\* main up to the call of run: the help, then the configuration.
MainBegin ==
  /\ pc = "main"
  /\ args' = <<>>
  /\ IF HelpRequested(args)
       THEN /\ pc' = "exit0"
            /\ UNCHANGED <<departure, destination>>
       ELSE LET r == build(args)
            IN  IF r.ok
                  THEN /\ pc' = "run"
                       /\ departure' = r.v.departure
                       /\ destination' = r.v.destination
                  ELSE /\ pc' = "exit1"
                       /\ UNCHANGED <<departure, destination>>
  /\ UNCHANGED <<trace, meters, scanner, out, input, read_failed, emitted,
                 element_name, local_name>>

\* main with the status 1 for an error of run as well.
MainEnd_one_status ==
  /\ pc \in {"done", "failed", "panicked"}
  /\ pc' = CASE pc = "done" -> "exit0"
            [] pc = "failed" -> "exit1"
            [] pc = "panicked" -> "exit101"
  /\ UNCHANGED <<config, scanner, out, input, read_failed, emitted>>

\* main after run: status 2 for an error of run, 0 when main returns; a
\* panic ends the process with status 101.
MainEnd ==
  /\ pc \in {"done", "failed", "panicked"}
  /\ pc' = CASE pc = "done" -> "exit0"
            [] pc = "failed" -> "exit2"
            [] pc = "panicked" -> "exit101"
  /\ UNCHANGED <<config, scanner, out, input, read_failed, emitted>>

\* run, up to the call of transform_route: the output file is created, the
\* start of the tree and the airports are written, the input file is
\* opened.  Any of these may fail, and run returns the error.
RunBegin ==
  /\ pc = "run"
  /\ LET evs == write_start_of_tree \o write_airports(departure, destination)
     IN  \E k \in 0..Len(evs), opened \in BOOLEAN :
           /\ out' = Written(evs, k)
           /\ pc' = IF k = Len(evs) /\ opened THEN "transform" ELSE "failed"
  /\ UNCHANGED <<config, scanner, input, read_failed, emitted>>

\* The runway waypoint of the departure airport, written right after the
\* route is opened; it takes number 0.
DepartureWaypoint ==
  IF departure_airport.some
    THEN write_airport_waypoint(departure_airport.v, "departure", 0)
    ELSE <<>>

\* The runway waypoint of the destination airport given no number.
DestinationWaypoint_unnumbered ==
  IF destination_airport.some
    THEN write_airport_waypoint(destination_airport.v, "approach", 0)
    ELSE <<>>

\* The runway waypoint of the destination airport, written after the scan;
\* it takes the next number.
DestinationWaypoint ==
  IF destination_airport.some
    THEN write_airport_waypoint(destination_airport.v, "approach", wp)
    ELSE <<>>

\* transform_route, up to its loop: the route is opened.
TransformBegin ==
  /\ pc = "transform"
  /\ LET evs == <<write_event("OpeningElement", <<W("route")>>)>>
                \o DepartureWaypoint
     IN  \E k \in 0..Len(evs) :
           /\ out' = Written(evs, k)
           /\ pc' = IF k = Len(evs) THEN "scan" ELSE "failed"
           /\ wp' = IF k = Len(evs) /\ departure_airport.some THEN 1 ELSE 0
  /\ UNCHANGED <<config, current_search, drop, waypoint, input, read_failed,
                 emitted>>

\* The elements the document may open next: below its container are the
\* Placemarks and other elements (Point stands for any of them), an element
\* of any name may lie inside these, and a Placemark holds no Placemark.
MayOpen(local) ==
  /\ Len(inStack) < MaxDepth
  /\ inStack = <<>> => local \in {"Placemark", "Point"}
  /\ local = "Placemark" => (CurPm = 0 /\ pmCount < MaxPlacemarks)
  /\ (trace /\ inStack # <<>> /\ inStack[Len(inStack)].pm > 0) =>
       local \notin seen

\* One turn of the loop on a StartElement event, for an element named with
\* or without the namespace.
StartElement(local, ns) ==
  /\ pc = "scan"
  /\ MayOpen(local)
  /\ LET raw == RawName(ns, local)
         r == handle_start_event(waypoint, current_search, drop, wp,
                                 simplify_name(raw))
         id == IF local = "Placemark" THEN pmCount + 1 ELSE 0
     IN  /\ waypoint' = r.waypoint
         /\ current_search' = r.current_search
         /\ drop' = r.drop
         /\ inStack' = Append(inStack, [name |-> local, pm |-> id])
         /\ pmCount' = IF id > 0 THEN id ELSE pmCount
         /\ fresh' = trace
         /\ seen' = IF ~trace \/ id > 0 THEN {}
                     ELSE IF inStack # <<>> /\ inStack[Len(inStack)].pm > 0
                            THEN seen \cup {local}
                            ELSE seen
         /\ pmStyle' = IF trace /\ id > 0 THEN Append(pmStyle, "none")
                       ELSE pmStyle
         /\ assigned' = IF /\ trace
                           /\ current_search = "OpeningPlacemark"
                           /\ r.current_search # "OpeningPlacemark"
                          THEN [assigned EXCEPT !.cycle = @ + 1,
                                                !.number = assigned.cycle + 1]
                          ELSE assigned
  /\ UNCHANGED <<pc, config, wp, out, identSrc, read_failed, emitted>>

\* Whether the text now read is the text of a `child` element of a Placemark.
InChildOfPlacemark(child) ==
  /\ Len(inStack) >= 2
  /\ inStack[Len(inStack)].name = child
  /\ inStack[Len(inStack) - 1].pm > 0

\* One turn of the loop on a Characters event.  A panic ends the process.
Characters(line) ==
  /\ pc = "scan"
  /\ inStack # <<>>
  /\ IF trace
       THEN fresh /\ line \in KmlTexts(inStack[Len(inStack)].name)
       ELSE line \in Texts
  /\ LET r == handle_characters_event(waypoint, current_search, drop, line,
                                      departure_airport, destination_airport)
     IN  IF r.panic
           THEN /\ pc' = "panicked"
                /\ LocalsDropped
           ELSE /\ pc' = "scan"
                /\ waypoint' = r.waypoint
                /\ current_search' = r.current_search
                /\ drop' = r.drop
                /\ pmStyle' = IF /\ trace
                                 /\ InChildOfPlacemark("styleUrl")
                                 /\ pmStyle[CurPm] = "none"
                                THEN [pmStyle EXCEPT ![CurPm] =
                                        IF TextIs(line, "#FixMark")
                                          THEN "fix" ELSE "other"]
                                ELSE pmStyle
                /\ identSrc' = IF trace /\ current_search = "ContentName"
                                 THEN CurPm ELSE identSrc
                /\ assigned' =
                     IF trace /\ current_search = "ContentName"
                       THEN [assigned EXCEPT !.ident = assigned.cycle]
                     ELSE IF trace /\ current_search = "ContentCoordinates"
                       THEN [assigned EXCEPT !.coords = assigned.cycle]
                     ELSE assigned
                /\ fresh' = FALSE
                /\ UNCHANGED <<wp, inStack, pmCount, seen>>
  /\ UNCHANGED <<config, out, read_failed, emitted>>

\* The text of the first styleUrl child of Placemark id.
StyleOf(id) == IF id \in DOMAIN pmStyle THEN pmStyle[id] ELSE "none"

\* One turn of the loop on an EndElement event: the innermost open element
\* of the input closes.
EndElement(ns) ==
  /\ pc = "scan"
  /\ inStack # <<>>
  /\ LET top == inStack[Len(inStack)]
         raw == RawName(ns, top.name)
         r == handle_end_event(waypoint, current_search, drop, wp,
                               simplify_name(raw))
     IN  \E k \in 0..Len(r.writes) :
           /\ out' = Written(r.writes, k)
           /\ IF k = Len(r.writes)
                THEN /\ pc' = "scan"
                     /\ waypoint' = r.waypoint
                     /\ current_search' = r.current_search
                     /\ wp' = r.wp
                     /\ inStack' = SubSeq(inStack, 1, Len(inStack) - 1)
                     /\ fresh' = FALSE
                     /\ emitted' = IF r.writes = <<>> THEN emitted
                                   ELSE Append(emitted,
                                               [identSrc |-> identSrc,
                                                identStyle |-> StyleOf(identSrc),
                                                trigger |-> top.pm])
                     /\ seen' = IF top.pm > 0 THEN {} ELSE seen
                     /\ UNCHANGED <<drop, pmCount, pmStyle, identSrc, assigned>>
                ELSE /\ pc' = "failed"
                     /\ LocalsDropped
                     /\ UNCHANGED emitted
  /\ UNCHANGED <<config, read_failed>>

\* One turn of the loop on any other event of the reader (a comment, white
\* space, a processing instruction, the start of the document): nothing
\* changes.
OtherEvent ==
  /\ pc = "scan"
  /\ UNCHANGED vars

\* The end of transform_route with the error of a write not returned.
FinishRoute_error_ignored ==
  /\ LET evs == DestinationWaypoint
                \o <<write_event("ClosingElement", <<W("route")>>)>>
     IN  \E k \in 0..Len(evs) :
           /\ out' = Written(evs, k)
           /\ pc' = "close_tree"
  /\ LocalsDropped
  /\ UNCHANGED <<config, emitted>>

\* transform_route after its loop: the route is closed.
FinishRoute ==
  /\ LET evs == DestinationWaypoint
                \o <<write_event("ClosingElement", <<W("route")>>)>>
     IN  \E k \in 0..Len(evs) :
           /\ out' = Written(evs, k)
           /\ pc' = IF k = Len(evs) THEN "close_tree" ELSE "failed"
  /\ LocalsDropped
  /\ UNCHANGED <<config, emitted>>

\* The loop left on an error of the reader with the route not closed.
ReadError_route_left_open ==
  /\ pc = "scan"
  /\ read_failed' = TRUE
  /\ pc' = "close_tree"
  /\ LocalsDropped
  /\ UNCHANGED <<config, out, emitted>>

\* The reader gives an error: the loop is left.
ReadError ==
  /\ pc = "scan"
  /\ read_failed' = TRUE
  /\ FinishRoute

\* The reader has no more events: the document ended.
EndOfInput ==
  /\ pc = "scan"
  /\ inStack = <<>>
  /\ UNCHANGED read_failed
  /\ FinishRoute

\* run after transform_route returned Ok: the tree is closed.
CloseTree ==
  /\ pc = "close_tree"
  /\ \E k \in 0..Len(close_tree) :
       /\ out' = Written(close_tree, k)
       /\ pc' = IF k = Len(close_tree) THEN "done" ELSE "failed"
  /\ UNCHANGED <<config, scanner, input, read_failed, emitted>>

\* The conversion of the altitude in step 9 of handle_characters_event.
ConvertAltitude ==
  /\ pc = "altitude"
  /\ pc' = "converted"
  /\ waypoint' = [waypoint EXCEPT !.altitude = FeetRounded(meters)]
  /\ UNCHANGED <<config, current_search, drop, wp, out, input, read_failed,
                 emitted>>

NextConvert == ConvertAltitude

\* Whether name.find('}') is Some.
is_split(name) == IF Len(name) > 1 THEN 1 ELSE 0

\* A call of simplify_name: the piece of the name at index is_split, a panic
\* when the split has no such piece.
SimplifyName ==
  /\ pc = "simplify_name"
  /\ IF is_split(element_name) + 1 \in DOMAIN element_name
       THEN /\ pc' = "simplified"
            /\ local_name' = simplify_name(element_name)
       ELSE /\ pc' = "panicked"
            /\ UNCHANGED local_name
  /\ UNCHANGED <<departure, destination, trace, meters, args, element_name,
                 scanner, out, input, read_failed, emitted>>

NextSimplify == SimplifyName

\* run up to the call of transform_route.
NextDecode == RunBegin

Next ==
  \/ RunBegin
  \/ TransformBegin
  \/ \E local \in Locals, ns \in BOOLEAN : StartElement(local, ns)
  \/ \E line \in Texts \cup KmlTexts("styleUrl") : Characters(line)
  \/ \E ns \in BOOLEAN : EndElement(ns)
  \/ OtherEvent
  \/ ReadError
  \/ EndOfInput
  \/ CloseTree

\* main, with run in it.
NextMain ==
  \/ MainBegin
  \/ Next
  \/ MainEnd

\* ------------------------------------------------------------ the output

\* The places of `out` where a waypoint element opens.
WpIdx ==
  {i \in 1..Len(out) : out[i].kind = "start" /\ out[i].name = W("wp")}

\* The content of the type field of the waypoint opened at place i, "" when
\* it is not written.
TypeAt(i) ==
  IF i + 2 <= Len(out) /\ out[i + 2].kind = "chars"
    THEN out[i + 2].text ELSE ""

\* The waypoints of type basic, and those of type runway.
BasicIdx == {i \in WpIdx : TypeAt(i) = "basic"}
RunwayIdx == {i \in WpIdx : TypeAt(i) = "runway"}

\* The sequence number a waypoint element carries: its attribute n, or 0
\* when it has none.
NumberAt(i) ==
  LET a == out[i].attrs
  IN  IF \E j \in DOMAIN a : a[j][1] = "n"
        THEN a[CHOOSE j \in DOMAIN a : a[j][1] = "n"][2]
        ELSE 0

\* The content of the ident field of the basic waypoint opened at place i,
\* the empty sequence when it is not written.
IdentAt(i) ==
  IF i + 5 <= Len(out) /\ out[i + 5].kind = "chars"
    THEN out[i + 5].text ELSE <<>>

\* Whether a text is the identifier of the departure or destination airport.
IsAnAirport(line) ==
  IsAirport(line, departure_airport) \/ IsAirport(line, destination_airport)

\* The contents of the lon and lat fields of the basic waypoint opened at
\* place i.
LonAt(i) == out[i + 8].text
LatAt(i) == out[i + 11].text

\* The places of `out` where an element closes right after another closed.
\* The fields of a waypoint hold a text each, so the first of these places
\* after the opening of a waypoint is the close of that waypoint.
CloseAfterClose ==
  {j \in 2..Len(out) : out[j].kind = "end" /\ out[j - 1].kind = "end"}

\* The waypoints written in full, and the basic ones of them.
CompleteIdx == {i \in WpIdx : \E j \in CloseAfterClose : j > i}
CompleteBasicIdx == BasicIdx \cap CompleteIdx

\* The place where the waypoint opened at place i closes.
WpEnd(i) == CHOOSE j \in CloseAfterClose :
              j > i /\ \A k \in CloseAfterClose : k > i => j <= k

\* Whether the waypoint opened at place i, written in full, has a field.
HasField(i, field) ==
  \E j \in (i + 1)..WpEnd(i) :
    out[j].kind = "start" /\ out[j].name = W(field)

\* How many elements of `out` are left open.
OpenDepth ==
  Cardinality({i \in 1..Len(out) : out[i].kind = "start"})
  - Cardinality({i \in 1..Len(out) : out[i].kind = "end"})

\* The name of the field that follows the type of the waypoint opened at
\* place i: for a runway waypoint, the role of the airport.
RoleAt(i) ==
  IF i + 4 <= Len(out) /\ out[i + 4].kind = "start"
    THEN out[i + 4].name[1] ELSE ""

\* What transform_route writes once its loop is left.
RouteEnd ==
  DestinationWaypoint \o <<write_event("ClosingElement", <<W("route")>>)>>

\* Whether a text of three tokens or more has a token that is no number.
FailsToParse(line) ==
  Len(line) >= 3 /\ \E j \in 1..3 : ~ParseF64(line[j]).ok

\* The step closes a Placemark element of the input and the scan goes on.
PlacemarkClosed ==
  /\ pc = "scan"
  /\ pc' = "scan"
  /\ inStack # <<>>
  /\ inStack[Len(inStack)].name = "Placemark"
  /\ Len(inStack') = Len(inStack) - 1

\* The step takes an event of the input and the scan goes on.
ScanStep == pc = "scan" /\ pc' = "scan"

\* The step is the open of an element `name`, its close, or a text.
OpenOf(name) ==
  /\ Len(inStack') = Len(inStack) + 1
  /\ inStack'[Len(inStack')].name = name
CloseOf(name) ==
  /\ inStack # <<>>
  /\ Len(inStack') = Len(inStack) - 1
  /\ inStack[Len(inStack)].name = name
TextEvent == inStack # <<>> /\ inStack' = inStack

\* The state after a state in the cycle of the scanner.
Successor(state) ==
  CASE state = "OpeningPlacemark" -> "OpeningName"
    [] state = "OpeningName" -> "ContentName"
    [] state = "ContentName" -> "ClosingName"
    [] state = "ClosingName" -> "OpeningStyleUrl"
    [] state = "OpeningStyleUrl" -> "ContentStyleUrl"
    [] state = "ContentStyleUrl" -> "ClosingStyleUrl"
    [] state = "ClosingStyleUrl" -> "OpeningCoordinates"
    [] state = "OpeningCoordinates" -> "ContentCoordinates"
    [] state = "ContentCoordinates" -> "ClosingCoordinates"
    [] state = "ClosingCoordinates" -> "ClosingPlacemark"
    [] state = "ClosingPlacemark" -> "OpeningPlacemark"

\* Whether the step is the event the state of the scanner waits for.
ExpectedEvent ==
  CASE current_search = "OpeningPlacemark" -> OpenOf("Placemark")
    [] current_search = "OpeningName" -> OpenOf("name")
    [] current_search = "ContentName" -> TextEvent
    [] current_search = "ClosingName" -> CloseOf("name")
    [] current_search = "OpeningStyleUrl" -> OpenOf("styleUrl")
    [] current_search = "ContentStyleUrl" -> TextEvent
    [] current_search = "ClosingStyleUrl" -> CloseOf("styleUrl")
    [] current_search = "OpeningCoordinates" -> OpenOf("coordinates")
    [] current_search = "ContentCoordinates" -> TextEvent
    [] current_search = "ClosingCoordinates" -> CloseOf("coordinates")
    [] current_search = "ClosingPlacemark" -> CloseOf("Placemark")

\* The places of the output where an element of this name is opened.
Opened(name) ==
  {i \in DOMAIN out : out[i].kind = "start" /\ out[i].name = W(name)}

\* Whether the events from place i on are an element of this name holding
\* this text and nothing else.
TextElementAt(i, name, text) ==
  /\ i + 2 <= Len(out)
  /\ out[i].kind = "start" /\ out[i].name = W(name)
  /\ out[i + 1] = [kind |-> "chars", text |-> text]
  /\ out[i + 2].kind = "end"

\* Whether the element opened at place i holds what write_airport_details
\* is to write for this code: the airport, then the runway of a code with
\* a '/', and then the close of the element.
AirportElementAt(i, code) ==
  /\ TextElementAt(i + 1, "airport", code[1])
  /\ IF Len(code) > 1
       THEN /\ TextElementAt(i + 4, "runway", code[2])
            /\ i + 7 <= Len(out) /\ out[i + 7].kind = "end"
       ELSE /\ i + 4 <= Len(out) /\ out[i + 4].kind = "end"

\* How many elements are open once the first i events are written.
DepthAt(i) ==
  Cardinality({j \in 1..i : out[j].kind = "start"})
  - Cardinality({j \in 1..i : out[j].kind = "end"})

\* The element opened directly inside the outermost one that the event at
\* place i lies in, or 0.
Enclosing(i) ==
  LET S == {j \in 1..(i - 1) : out[j].kind = "start" /\ DepthAt(j) = 2}
  IN  IF S = {} THEN 0 ELSE CHOOSE j \in S : \A h \in S : h <= j

\* Whether the output is a well-nested tree: PropertyList opened first and
\* closed last, every element closed, one route directly inside
\* PropertyList, every wp directly inside route.
WellNested ==
  /\ out # <<>>
  /\ out[1].kind = "start" /\ out[1].name = W("PropertyList")
  /\ \A i \in 1..(Len(out) - 1) : DepthAt(i) >= 1
  /\ DepthAt(Len(out)) = 0
  /\ Cardinality(Opened("route")) = 1
  /\ \A r \in Opened("route") : DepthAt(r) = 2
  /\ \A i \in Opened("wp") :
       /\ DepthAt(i) = 3
       /\ Enclosing(i) \in Opened("route")

\* The fields of a basic waypoint, in the order they are written.
BasicFields == <<"type", "ident", "lon", "lat">>

\* Whether the event k places after the opening of a basic waypoint is the
\* one that belongs there: the fields one after the other, each opened,
\* filled and closed, then the close of the waypoint.
InBasicShape(i, k) ==
  LET e == out[i + k]
  IN  IF k = 3 * Len(BasicFields) + 1 THEN e.kind = "end"
      ELSE CASE k % 3 = 1 ->
                  e.kind = "start" /\ e.name = W(BasicFields[(k + 2) \div 3])
             [] k % 3 = 2 -> e.kind = "chars"
             [] k % 3 = 0 -> e.kind = "end"

\* How many of the places in S come before place i.
Rank(S, i) == Cardinality({j \in S : j < i})

Spec == Init /\ [][Next]_vars

SpecTrace == InitTrace /\ [][Next]_vars
SpecConvert == InitConvert /\ [][NextConvert]_vars
SpecDecode == InitDecode /\ [][NextDecode]_vars
SpecSimplify == InitSimplify /\ [][NextSimplify]_vars
SpecMain == InitMain /\ [][NextMain]_vars

\* ------------------------------------------------------------------ claims

C2_NoNameOfUnmarkedPlacemark ==
  \A k \in 1..Len(emitted) : emitted[k].identStyle # "other"

\* C3: a placemark whose name is the identifier of the departure or the
\* destination airport is not written as a basic waypoint.  When the scanner
\* reads that name it sets the drop flag and goes on to look for the close
\* of the Placemark, writing nothing; as long as the record holds that name
\* no waypoint is written; and no basic waypoint of the output carries an
\* airport's identifier.
C3_AirportNameDropped ==
  [][ /\ \A line \in Texts :
           (Characters(line) /\ current_search = "ContentName"
              /\ IsAnAirport(line))
             => (drop' /\ current_search' = "ClosingPlacemark" /\ out' = out)
      /\ (pc = "scan" /\ pc' = "scan" /\ IsAnAirport(waypoint.ident))
           => out' = out
      /\ \A i \in BasicIdx' : ~IsAnAirport(IdentAt(i)')
    ]_vars

\* C3 witness: a placemark named as the airport was read and closed, and the
\* output holds no basic waypoint.
C3_Witness ==
  /\ pc = "scan"
  /\ IsAnAirport(waypoint.ident)
  /\ drop
  /\ current_search = "OpeningPlacemark"
  /\ BasicIdx = {}

\* C4: right after the close of a Placemark element is processed the scan
\* state is OpeningPlacemark (the spec's AwaitingPlacemarkOpen), whatever
\* children the Placemark had.
C4_PlacemarkCloseResynchronizes ==
  [][PlacemarkClosed => current_search' = "OpeningPlacemark"]_vars

\* C5: a coordinates text of fewer than three tokens, read while the scanner
\* looks for the contents of coordinates, sets the drop flag and writes
\* nothing, and the scan goes on.
C5_ShortCoordinatesDropped ==
  [][\A line \in KmlTexts("coordinates") :
       (Characters(line) /\ current_search = "ContentCoordinates"
          /\ Len(line) < 3)
         => (pc' = "scan" /\ drop' /\ out' = out)
    ]_vars

\* C6: when one of the three tokens of a coordinates text is no number, the
\* drop flag is set, the scanner goes on to look for the close of
\* coordinates, and the count of waypoints and the output are unchanged;
\* while the drop flag is set nothing is written and the count stays; the
\* next Placemark the scanner takes up starts with the flag cleared and the
\* count as its number; a waypoint written carries the count as its number and the count goes up by
\* one; and no basic waypoint of the output holds the 0 that stands in for a
\* token that did not parse.
C6_ParseFailureDropsPlacemark ==
  [][ /\ \A line \in Texts :
           (Characters(line) /\ current_search = "ContentCoordinates"
              /\ FailsToParse(line))
             => /\ pc' = "scan"
                /\ drop'
                /\ current_search' = "ClosingCoordinates"
                /\ wp' = wp
                /\ out' = out
      /\ (pc = "scan" /\ pc' = "scan" /\ drop) => (out' = out /\ wp' = wp)
      /\ (pc = "scan" /\ pc' = "scan" /\ current_search = "OpeningPlacemark"
            /\ current_search' # "OpeningPlacemark")
           => (~drop' /\ waypoint'.number = wp)
      /\ (pc = "scan" /\ pc' = "scan" /\ out' # out)
           => /\ wp' = wp + 1
              /\ \E i \in BasicIdx' : i = Len(out) + 1
              /\ \A i \in BasicIdx' : i > Len(out) => NumberAt(i)' = wp
      /\ \A i \in CompleteBasicIdx' :
           /\ LonAt(i)' # Format6(Zero64)
           /\ LatAt(i)' # Format6(Zero64)
    ]_vars

\* C6 witness: a waypoint was written, then a Placemark whose latitude is no
\* number was read and closed: nothing more was written and the count
\* stayed.
C6_Witness ==
  /\ pc = "scan"
  /\ current_search = "OpeningPlacemark"
  /\ drop
  /\ waypoint.lon # Zero64
  /\ waypoint.lat = Zero64
  /\ wp = 1
  /\ Cardinality(CompleteBasicIdx) = 1
  /\ departure = None

\* C7: the step on which the reader gives an error either writes the
\* destination waypoint, if any, and the close of the route, and hands over
\* to the close of the tree with no basic waypoint added, or fails on one of
\* these writes; after it no event of the input is taken and no basic
\* waypoint written: the one step left is the close of the tree.
C7_ReadErrorEndsScan ==
  [][ /\ (~read_failed /\ read_failed')
           => \/ /\ pc' = "close_tree"
                 /\ out' = out \o RouteEnd
                 /\ BasicIdx' = BasicIdx
              \/ /\ pc' = "failed"
                 /\ Len(out') < Len(out) + Len(RouteEnd)
      /\ read_failed
           => /\ pc = "close_tree"
              /\ pc' \in {"done", "failed"}
              /\ pc' = "done" => out' = out \o close_tree
              /\ BasicIdx' = BasicIdx
              /\ UNCHANGED input
    ]_vars

\* C7 witness: the reader gave an error after a waypoint was written, and
\* run ended with the destination waypoint written and the tree closed.
C7_Witness ==
  /\ read_failed
  /\ pc = "done"
  /\ destination # None
  /\ Cardinality(BasicIdx) = 1
  /\ \E i \in RunwayIdx : RoleAt(i) = "approach"
  /\ OpenDepth = 0

\* C8: a write that fails ends run with the error: no step is taken after
\* run failed, a failed run leaves the tree open, the scan goes on only with
\* the route open and every waypoint written in full, and the tree is
\* closed only after the route was closed.
C8_WriteErrorFatal ==
  [][ /\ pc # "failed"
      /\ pc' = "failed" => (out' = <<>> \/ OpenDepth' >= 1)
      /\ pc' = "scan" => (OpenDepth' = 2 /\ CompleteIdx' = WpIdx')
      /\ pc' = "close_tree" =>
           (OpenDepth' = 1 /\ CompleteIdx' = WpIdx'
              /\ out'[Len(out')].kind = "end")
      /\ pc' = "done" => OpenDepth' = 0
    ]_vars

\* C8 witness: run failed on a write inside a basic waypoint.
C8_Witness ==
  /\ pc = "failed"
  /\ \E i \in BasicIdx : i \notin CompleteIdx
  /\ OpenDepth >= 3

\* C9: the waypoints of the route carry the numbers 0, 1, 2, ... in the
\* order they are written.  With a departure airport, the scan runs with its
\* runway waypoint written first, under number 0, and the basic waypoints
\* are numbered from 1.  With a destination airport, the route closes with
\* its runway waypoint written last, and that waypoint is written only once
\* the scan is over.
C9_AirportWaypointsNumbered ==
  /\ \A i \in WpIdx : NumberAt(i) = Rank(WpIdx, i)
  /\ (departure # None /\ pc \in {"scan", "close_tree", "done"})
       => /\ \E i \in RunwayIdx \cap CompleteIdx :
               RoleAt(i) = "departure" /\ Rank(WpIdx, i) = 0
          /\ \A i \in BasicIdx : NumberAt(i) >= 1
  /\ (destination # None /\ pc \in {"close_tree", "done"})
       => \E i \in RunwayIdx \cap CompleteIdx :
            /\ RoleAt(i) = "approach"
            /\ Rank(WpIdx, i) = Cardinality(WpIdx) - 1
  /\ \A i \in RunwayIdx :
       /\ RoleAt(i) = "departure" => Rank(WpIdx, i) = 0
       /\ RoleAt(i) = "approach" =>
            (pc # "scan" /\ Rank(WpIdx, i) = Cardinality(WpIdx) - 1)

\* C9 witness: run ended with both airports given and one placemark
\* accepted: three waypoints, the runways first and last.
C9_Witness ==
  /\ pc = "done"
  /\ departure # None
  /\ destination # None
  /\ Cardinality(BasicIdx) = 1
  /\ Cardinality(RunwayIdx) = 2

\* C10: every basic waypoint written in full has an altitude field, and the
\* field holds the altitude in feet of the 823 metres of the placemark.
C10_BasicWaypointHasAltitude ==
  \A i \in CompleteBasicIdx :
    \E j \in (i + 1)..(WpEnd(i) - 2) :
      /\ out[j].kind = "start"
      /\ out[j].name = W("altitude")
      /\ out[j + 1].kind = "chars"
      /\ out[j + 1].text = FeetRounded(ParseF64(AltTok).v)

\* C11: the altitude stored for a number of metres is a multiple of 100
\* feet; it is 0 for a negative number, 12500 for 3800.2 metres and 2700 for
\* 823 metres.
C11_AltitudeMultipleOf100 ==
  pc = "converted" =>
    /\ waypoint.altitude[3] % 100 = 0
    /\ meters.neg => waypoint.altitude = Usize(0)
    /\ meters = F64(FALSE, 3800, 2000000) => waypoint.altitude = Usize(12500)
    /\ meters = F64(FALSE, 823, 0) => waypoint.altitude = Usize(2700)

\* C12: the opening wp element written on an event of the input (that is,
\* by write_waypoint, for the waypoint of the record) has
\* the one attribute n, holding the record's number, when that number is not
\* 0, and no attribute when it is 0.
C12_NumberAttributeIffNonZero ==
  [][(pc = "scan" /\ inStack # <<>> /\ ~read_failed' /\ out' # out) =>
       LET opening == out'[Len(out) + 1]
       IN  /\ opening.kind = "start"
           /\ opening.name = W("wp")
           /\ waypoint.number = 0 => opening.attrs = <<>>
           /\ waypoint.number # 0 =>
                opening.attrs = <<A("n", waypoint.number)>>
    ]_vars

\* C12 witness: the output holds a bare wp element and one with n=1, both
\* of basic waypoints.
C12_Witness ==
  \E i, j \in BasicIdx :
    /\ out[i].attrs = <<>>
    /\ out[j].attrs = <<A("n", 1)>>

\* C13: once run has decoded the airports, the Airport of a code has the
\* code's part before the '/' (the whole code when there is no '/') as its
\* ident and the part after it, if any, as its runway, so that a name equal
\* to the code's ICAO part passes the test that drops a placemark.
C13_DecodedIdentIsIcaoPart ==
  (pc = "transform" /\ departure # None) =>
    LET code == departure.v
        airport == departure_airport.v
    IN  /\ airport.ident = code[1]
        /\ airport.runway = IF Len(code) > 1 THEN Some(code[2]) ELSE None
        /\ IsAirport(<<code[1]>>, departure_airport)

\* C14: main exits with status 0 when the help is asked for, with status 1
\* when Config::build fails and with status 2 when run fails; status 1
\* comes only from a failure of build and status 2 only from a failure of
\* run.
C14_ExitStatusTellsErrorsApart ==
  [][ /\ (pc = "main" /\ HelpRequested(args)) => pc' = "exit0"
      /\ (pc = "main" /\ ~HelpRequested(args) /\ ~build(args).ok)
           => pc' = "exit1"
      /\ pc = "failed" => pc' = "exit2"
      /\ pc' = "exit1" => (pc = "main" /\ ~build(args).ok)
      /\ pc' = "exit2" => pc = "failed"
    ]_vars

\* C14 witness: run failed on a write inside the route and main exited with
\* status 2.
C14_Witness ==
  /\ pc = "exit2"
  /\ WpIdx # {}

\* C15: Config::build fails when the arguments after the program's name
\* hold fewer than two files or a flag it does not know; otherwise the
\* configuration has the first two as input and output and the third and
\* fourth, if there, as departure and destination.
C15_BuildRejectsUnknownFlag ==
  [][ (pc = "main" /\ ~HelpRequested(args)) =>
        LET a == SubSeq(args, 2, Len(args))
            r == build(args)
        IN  IF Len(a) < 2 \/ \E i \in 1..Len(a) : a[i] \in Flags
              THEN ~r.ok /\ pc' = "exit1"
              ELSE /\ r.ok
                   /\ pc' = "run"
                   /\ r.v.input = a[1]
                   /\ r.v.output = a[2]
                   /\ departure' = IF Len(a) >= 3 THEN Some(a[3]) ELSE None
                   /\ destination' = IF Len(a) >= 4 THEN Some(a[4]) ELSE None
    ]_vars

\* C16: while the scan goes on, the close of a Placemark taken in state
\* ClosingPlacemark with the drop flag false writes one basic waypoint and
\* adds one to the count; with the flag true it writes nothing and the
\* count stays; both leave the state at OpeningPlacemark.  No other event
\* writes or changes the count, and the count is the number of waypoints
\* written.
C16_WrittenExactlyAtAcceptedClose ==
  [][ ScanStep =>
        LET closes == CloseOf("Placemark")
                        /\ current_search = "ClosingPlacemark"
        IN  /\ (closes /\ ~drop)
                 => /\ Cardinality(BasicIdx') = Cardinality(BasicIdx) + 1
                    /\ CompleteIdx' = WpIdx'
                    /\ wp' = wp + 1
            /\ ~(closes /\ ~drop) => (out' = out /\ wp' = wp)
            /\ closes => current_search' = "OpeningPlacemark"
            /\ wp' = Cardinality(WpIdx')
    ]_vars

\* C16 witness: of two placemarks closed in state ClosingPlacemark the first
\* was written and the second dropped.
C16_Witness ==
  /\ pc = "scan"
  /\ pmCount = 2
  /\ inStack = <<>>
  /\ current_search = "OpeningPlacemark"
  /\ drop
  /\ wp = 1
  /\ Cardinality(BasicIdx) = 1

\* C17: an event of the input that is not the one the state of the scanner
\* waits for leaves the state, the drop flag, the record and the count as
\* they are, and nothing is written.
C17_UnexpectedEventIgnored ==
  [][(ScanStep /\ ~ExpectedEvent) =>
       UNCHANGED <<current_search, drop, waypoint, wp, out>>]_vars

\* C17 witness: a Point was opened in a Placemark while the scanner waits
\* for the open of name, and the scanner still waits for it.
C17_Witness ==
  /\ pc = "scan"
  /\ Len(inStack) = 2
  /\ inStack[1].name = "Placemark"
  /\ inStack[2].name = "Point"
  /\ current_search = "OpeningName"

\* C18: the scanner starts in OpeningPlacemark, and an event of the input
\* leaves the state as it is, moves it to the next state of the cycle, or,
\* from ContentName or ContentStyleUrl and with the drop flag set, moves it
\* to ClosingPlacemark.
C18_OneTransitionPerEvent ==
  [][ /\ (pc = "transform" /\ pc' = "scan")
           => current_search' = "OpeningPlacemark"
      /\ ScanStep
           => \/ current_search' = current_search
              \/ current_search' = Successor(current_search)
              \/ /\ current_search \in {"ContentName", "ContentStyleUrl"}
                 /\ current_search' = "ClosingPlacemark"
                 /\ drop'
    ]_vars

\* C18 witness: the scanner went round the cycle to the close of a
\* Placemark it has not dropped.
C18_Witness ==
  /\ pc = "scan"
  /\ current_search = "ClosingPlacemark"
  /\ ~drop
  /\ Len(inStack) = 1

\* C19: while the scan goes on the drop flag is cleared only by the open of
\* a Placemark taken in state OpeningPlacemark; inside a Placemark a flag
\* that is set stays set; and while it is set nothing is written.
C19_DropKeptUntilPlacemarkCloses ==
  [][ ScanStep =>
        /\ (drop /\ ~drop')
             => (current_search = "OpeningPlacemark" /\ OpenOf("Placemark"))
        /\ (drop /\ CurPm # 0) => drop'
        /\ drop => out' = out
    ]_vars

\* C19 witness: the one placemark read, named EZE11, was marked for
\* dropping and has closed; nothing was written.
C19_Witness ==
  /\ pc = "scan"
  /\ pmCount = 1
  /\ inStack = <<>>
  /\ waypoint.ident = <<"EZE11">>
  /\ drop
  /\ current_search = "OpeningPlacemark"
  /\ WpIdx = {}

\* C20: when a waypoint is written, the number, the ident and the
\* coordinates of the record were all assigned in the scan cycle that is
\* running, that is, since the scanner last went from OpeningPlacemark to
\* OpeningName.
C20_NoFieldFromEarlierCycle ==
  [][(ScanStep /\ out' # out) =>
       /\ assigned.cycle > 0
       /\ assigned.number = assigned.cycle
       /\ assigned.ident = assigned.cycle
       /\ assigned.coords = assigned.cycle
    ]_vars

\* C20 witness: the record was used for a second waypoint, written in the
\* second cycle.
C20_Witness ==
  /\ pc = "scan"
  /\ assigned.cycle = 2
  /\ assigned.coords = 2
  /\ Cardinality(CompleteBasicIdx) = 2

\* C21: the events of the output from the opening of a basic waypoint on
\* are, as far as they are written, the fields type, ident, lon and lat in
\* that order, each opened, filled and closed, and then the close of the
\* waypoint, with no other event in between.
C21_BasicWaypointShape ==
  \A i \in BasicIdx :
    /\ out[i].name = W("wp")
    /\ \A k \in 1..(3 * Len(BasicFields) + 1) :
         i + k <= Len(out) => InBasicShape(i, k)
    /\ i \in CompleteIdx => WpEnd(i) = i + 3 * Len(BasicFields) + 1

\* C21 witness: two basic waypoints were written in full after the runway
\* waypoint of the departure airport.
C21_Witness ==
  /\ pc = "scan"
  /\ departure # None
  /\ Cardinality(CompleteBasicIdx) = 2

\* C22: simplify_name ends without a panic on every name; it returns a name
\* holding no '}' unchanged and the local name of a name of the form
\* {uri}local, the text after its closing brace; simplifying the result again
\* gives the result.
C22_SimplifyNameGivesLocalName ==
  /\ pc # "panicked"
  /\ pc = "simplified" =>
       /\ Len(element_name) = 1 => local_name = element_name[1]
       /\ Namespaced(element_name) =>
            local_name = element_name[Len(element_name)]
       /\ simplify_name(<<local_name>>) = local_name

\* C23: once run has written the airports, the output holds a departure
\* element exactly when a departure code is given and a destination element
\* exactly when an arrival code is given, the departure before the
\* destination; each holds the airport part of its code followed by the
\* runway part when the code has a '/', and the whole code as the airport
\* and no runway otherwise.
C23_AirportsWritten ==
  pc = "transform" =>
    /\ Cardinality(Opened("departure")) = IF departure.some THEN 1 ELSE 0
    /\ Cardinality(Opened("destination")) = IF destination.some THEN 1 ELSE 0
    /\ \A i \in Opened("departure") :
         /\ AirportElementAt(i, departure.v)
         /\ \A j \in Opened("destination") : i < j
    /\ \A j \in Opened("destination") : AirportElementAt(j, destination.v)
    /\ Cardinality(Opened("airport")) =
         (IF departure.some THEN 1 ELSE 0)
         + (IF destination.some THEN 1 ELSE 0)
    /\ Cardinality(Opened("runway")) =
         (IF departure.some /\ Len(departure.v) > 1 THEN 1 ELSE 0)
         + (IF destination.some /\ Len(destination.v) > 1 THEN 1 ELSE 0)

\* C23 witness: the airports are written for a departure code with a runway
\* and an arrival code without one.
C23_Witness ==
  /\ pc = "transform"
  /\ departure.some /\ Len(departure.v) = 2
  /\ destination.some /\ Len(destination.v) = 1
  /\ Opened("runway") # {}

\* C24: every waypoint written describes the Placemark whose close wrote
\* it: the identifier of the record was read in that Placemark, and the
\* styleUrl of that Placemark is #FixMark.
C24_WaypointOfOnePlacemark ==
  \A k \in 1..Len(emitted) :
    /\ emitted[k].trigger > 0
    /\ emitted[k].identSrc = emitted[k].trigger
    /\ emitted[k].identStyle = "fix"

\* C25: when run has ended and no write failed, the output is well nested:
\* every element opened is closed, every wp lies directly inside the one
\* route, route lies directly inside PropertyList, and PropertyList is
\* closed last.
C25_OutputWellNested ==
  pc \in {"done", "panicked"} => WellNested

====
